---- MODULE Spec2Model ----
(***************************************************************************)
(* Model of the crawl engine of src/src/crawler.js (DistributedWebCrawler):*)
(* the URL queue with the visited set, the pool of async workers started   *)
(* by crawl(), the retrying fetch with exponential backoff, and the        *)
(* per-host slow marking.                                                  *)
(*                                                                         *)
(* JavaScript runs every piece of code between two awaits to completion,   *)
(* so one action of the model is one such piece: the synchronous start of  *)
(* crawl() (which runs every worker up to its first await), the code that  *)
(* runs when a timer fires, and the code that runs when a request settles. *)
(* What a server answers (failure, response time, the links of the page)   *)
(* is an input of the action that handles the answer.                      *)
(***************************************************************************)
EXTENDS Integers, Sequences, FiniteSets, TLC

----------------------------------------------------------------------------
(* Bounds of the model                                                     *)

MaxWorkers == 2
MaxDepthBound == 2
MaxRetriesBound == 2
MaxFailures == 3

----------------------------------------------------------------------------
(* Program constants                                                       *)

RetryDelayDefault == 1000
SlowHostThresholdDefault == 15000
HostDelayCap == 10000
DelayBetweenRequestsDefault == 100

----------------------------------------------------------------------------
(* URLs: what new URL(...) exposes of a parsed absolute URL                *)

MkUrl(s, h, p, path) == [scheme |-> s, host |-> h, port |-> p, path |-> path]

SeedPage == MkUrl("https", "a.test", 443, "/")
PageP1 == MkUrl("https", "a.test", 443, "/p1")
PageP2 == MkUrl("https", "a.test", 443, "/p2")
PageP3 == MkUrl("https", "a.test", 443, "/p3")
Foreign == MkUrl("https", "b.test", 443, "/")

Urls == {SeedPage, PageP1, PageP2, PageP3, Foreign}

\* a seed string without a scheme, which new URL(seedUrl) refuses (line 88)
BadSeed == MkUrl("", "invalid-url", 0, "")

\* the arguments crawl() is called with
Seeds == {SeedPage, BadSeed}

Hosts == {u.host : u \in Urls}

\* the link lists a fetched page can carry (foundUrls, in document order)
LinkLists ==
  { <<>>,
    <<PageP1, PageP2>>,
    <<PageP1, PageP1>>,
    <<PageP2, Foreign>>,
    <<SeedPage, PageP2>> }

\* measured response times (ms) a request can take, below and above the
\* slow-host threshold
ResponseTimes == {100, 16000}

Workers == 1..MaxWorkers

----------------------------------------------------------------------------
VARIABLES
  config,          \* this.config (immutable after construction)
  hasListener,     \* whether the caller registered an 'error' listener
  visitedUrls,     \* this.visitedUrls
  discoveredUrls,  \* this.discoveredUrls
  urlQueue,        \* this.urlQueue
  results,         \* this.results
  isRunning,       \* this.isRunning
  slowHosts,       \* this.slowHosts
  hostDelays,      \* this.hostDelays (a Map: a function on the hosts it holds)
  crawlPc,         \* where the crawl() call stands
  pc,              \* where each worker() call stands
  cur,             \* each worker's locals: item url, depth, attempt
  fetchLog,        \* history: per URL, what its fetchAndParse did, in order
  pushLog,         \* history: every urlQueue.push, in order
  emitted,         \* history: every emit('error', ...), in order
  failures,        \* history: number of failed request attempts so far
  storageStats,    \* this.storageStats (its totalResults counter)
  workerLog,       \* history: per worker, the URLs it claimed and its sleeps
  received,        \* history: every HTTP response a request received, in order
  shiftLog,        \* history: every urlQueue.shift() that gave an entry, in order
  overlapPc,       \* where a crawl() call made while the first is pending stands
  call             \* a direct call of a method by the caller, with its result

vars == <<config, hasListener, visitedUrls, discoveredUrls, urlQueue, results,
          isRunning, slowHosts, hostDelays, crawlPc, pc, cur, fetchLog,
          pushLog, emitted, failures, storageStats, workerLog, received,
          shiftLog, overlapPc, call>>

NoUrl == MkUrl("", "", 0, "")
NoLocals == [url |-> NoUrl, depth |-> 0, attempt |-> 0]

Ev(e, n) == [ev |-> e, n |-> n]

\* an entry of workerLog: the worker claimed url, ended its processing, or
\* started a politeness sleep of n ms
Wv(e, url, n) == [ev |-> e, url |-> url, n |-> n]

\* no direct call was made
NoCall == [fn |-> "none"]

----------------------------------------------------------------------------
(* Pure helpers                                                            *)

RECURSIVE Pow2(_)
Pow2(n) == IF n = 0 THEN 1 ELSE 2 * Pow2(n - 1)

Min(a, b) == IF a < b THEN a ELSE b

Range(s) == {s[i] : i \in 1..Len(s)}

Origin(u) == <<u.scheme, u.host, u.port>>

Hostname(u) == u.host

\* does new URL(...) accept the string?  (an absolute URL has a scheme)
IsValidUrlAlways(u) == TRUE

IsValidUrl(u) == u.scheme # ""

----------------------------------------------------------------------------
(* URL strings and new URL(...).  A string is kept as the pieces it is     *)
(* written with: the scheme before the colon ("" when there is none), the  *)
(* host and the port as written (<<>> when no port is written), the rest,  *)
(* and for a blob: string the string that follows "blob:" (else <<>>).     *)

UrlText(s, h, p, path, wraps) ==
  [scheme |-> s, host |-> h, port |-> p, path |-> path, wraps |-> wraps]

\* an origin string: "null", or scheme://host with the port and the tail as
\* written
OriginText(s, h, p, tail) == [scheme |-> s, host |-> h, port |-> p, tail |-> tail]

NullOrigin == OriginText("", "null", <<>>, "")

\* ASCII lower-casing, on the strings used
Lower(str) ==
  CASE str = "A.TEST" -> "a.test"
    [] str = "HTTPS" -> "https"
    [] OTHER -> str

\* the schemes whose URLs have a tuple origin
IsSpecial(scheme) == scheme \in {"http", "https", "ws", "wss", "ftp"}

DefaultPort(scheme) ==
  CASE scheme \in {"http", "ws"} -> 80
    [] scheme \in {"https", "wss"} -> 443
    [] scheme = "ftp" -> 21
    [] OTHER -> 0

\* new URL(text) without a base: ok is FALSE where the constructor throws
ParseUrl(text) ==
  LET scheme == Lower(text.scheme)
      failure == [ok |-> FALSE, scheme |-> "", host |-> "", port |-> <<>>,
                  wraps |-> <<>>]
  IN IF scheme = ""
       THEN failure
       ELSE IF IsSpecial(scheme)
         THEN IF text.host = "" \/ (text.port # <<>> /\ text.port[1] > 65535)
                THEN failure
                ELSE [ok |-> TRUE, scheme |-> scheme, host |-> Lower(text.host),
                      port |-> IF text.port = <<DefaultPort(scheme)>>
                                 THEN <<>> ELSE text.port,
                      wraps |-> <<>>]
         ELSE [ok |-> TRUE, scheme |-> scheme, host |-> text.host,
               port |-> <<>>, wraps |-> text.wraps]

\* url.origin of a parsed URL
SerializedOrigin(url) ==
  IF IsSpecial(url.scheme)
    THEN OriginText(url.scheme, url.host, url.port, "")
    ELSE IF url.scheme = "blob" /\ url.wraps # <<>>
      THEN LET inner == ParseUrl(url.wraps[1])
           IN IF inner.ok /\ inner.scheme \in {"http", "https"}
                THEN OriginText(inner.scheme, inner.host, inner.port, "")
                ELSE NullOrigin
      ELSE NullOrigin

\* isSameOrigin comparing the hosts only
IsSameOriginCallHostOnly(urlString, origin) ==
  LET url == ParseUrl(urlString)
  IN IF url.ok /\ url.host = origin.host THEN "true" ELSE "false"

\* lines 278-285: isSameOrigin(urlString, origin); its outcome is "true",
\* "false" or "throws"
IsSameOriginCall(urlString, origin) ==
  LET url == ParseUrl(urlString)
  IN IF url.ok
       THEN IF SerializedOrigin(url) = origin THEN "true" ELSE "false"
       ELSE "false"

\* the href and the origin strings of the URLs the engine handles
Href(u) ==
  UrlText(u.scheme, u.host,
          IF u.port = DefaultPort(u.scheme) THEN <<>> ELSE <<u.port>>,
          u.path, <<>>)

OriginString(origin) ==
  OriginText(origin[1], origin[2],
             IF origin[3] = DefaultPort(origin[1]) THEN <<>> ELSE <<origin[3]>>,
             "")

\* isSameOrigin comparing nothing
IsSameOriginAlways(u, origin) == TRUE

\* isSameOrigin(discoveredUrl, baseUrl.origin) as the worker calls it
IsSameOrigin(u, origin) ==
  IsSameOriginCall(Href(u), OriginString(origin)) = "true"

----------------------------------------------------------------------------

\* the backoff of line 262 with the exponent off by one
BackoffDelayDoubled(attempt) == config.retryDelay * Pow2(attempt + 1)

BackoffDelay(attempt) == config.retryDelay * Pow2(attempt)

\* the retry test of line 260 giving up one attempt early
AttemptsRemainOneLess(attempt) == attempt + 1 < config.maxRetries

\* line 260: is another attempt left after the failed one?
AttemptsRemain(attempt) == attempt < config.maxRetries

\* Skip without the visited test of line 123
SkipNoVisitedCheck(item, visited) == item.depth > config.maxDepth

\* Skip without the depth test of line 124
SkipNoDepthCheck(item, visited) == item.url \in visited

\* lines 123-124: is the dequeued item dropped without a fetch?
Skip(item, visited) ==
  \/ item.url \in visited
  \/ item.depth > config.maxDepth

\* the slow test of line 195 also taking a response time equal to the threshold
IsSlowResponseOrEqual(responseTime) == responseTime >= config.slowHostThreshold

\* line 195: does this response time mark the host slow?
IsSlowResponse(responseTime) == responseTime > config.slowHostThreshold

\* slowHosts after a response that unmarks the host when the response was fast
SlowHostsAfterUnmarking(domain, responseTime) ==
  IF IsSlowResponse(responseTime) THEN slowHosts \cup {domain}
                                  ELSE slowHosts \ {domain}

\* lines 195-196: this.slowHosts after a response of the host
SlowHostsAfter(domain, responseTime) ==
  IF IsSlowResponse(responseTime) THEN slowHosts \cup {domain} ELSE slowHosts

\* hostDelays after a response, recording the response time without the cap
HostDelaysAfterUncapped(domain, responseTime) ==
  IF IsSlowResponse(responseTime)
    THEN [h \in DOMAIN hostDelays \cup {domain} |->
            IF h = domain THEN responseTime ELSE hostDelays[h]]
    ELSE hostDelays

\* lines 195-197: this.hostDelays after a response of the host
HostDelaysAfter(domain, responseTime) ==
  IF IsSlowResponse(responseTime)
    THEN [h \in DOMAIN hostDelays \cup {domain} |->
            IF h = domain THEN Min(responseTime, HostDelayCap) ELSE hostDelays[h]]
    ELSE hostDelays

\* lines 290-292: the time setTimeout(resolve, ms) really waits (Node takes a
\* delay below 1 or above 2^31-1 as 1)
TimerDelay(ms) == IF ms < 1 \/ ms > 2147483647 THEN 1 ELSE ms

\* validateStatus as axios has it by default: 2xx only
ValidateStatusDefault(status) == status >= 200 /\ status < 300

\* line 188: validateStatus: () => true
ValidateStatus(status) == TRUE

\* the values of the content-type header the servers send; "" is a response
\* without the header (line 201)
ContentTypes ==
  {"text/html", "text/html; charset=utf-8", "Text/HTML", "application/json", ""}

\* the HTML test of line 206 taking every response as HTML
IsHtmlAlways(contentType) == TRUE

\* line 206: contentType.includes('text/html'), a case-sensitive substring test
IsHtml(contentType) == contentType \in {"text/html", "text/html; charset=utf-8"}

\* an href value that is a path: a reference relative to the page's URL
Rel(path) == MkUrl("", "", 0, path)

\* an href value of a scheme that is not http or https
MailTo == MkUrl("mailto", "", 0, "x@a.test")

\* lines 217 and 234: new URL(href, url), the href resolved against the URL
\* the worker requested
Resolve(href, url) ==
  IF href.scheme = ""
    THEN MkUrl(url.scheme, url.host, url.port, href.path)
    ELSE href

\* lines 219 and 235: absoluteUrl.startsWith('http')
StartsWithHttp(u) == u.scheme \in {"http", "https"}

\* lines 202-244: foundUrls, the absolute http links of the body's a[href] and
\* link[href] elements when the body is parsed, else []
ExtractLinks(response, url) ==
  IF IsHtml(response.contentType)
    THEN SelectSeq([i \in 1..Len(response.hrefs) |-> Resolve(response.hrefs[i], url)],
                   StartsWithHttp)
    ELSE <<>>

\* the base of the origin test taken from the URL the response came from
BaseUrlAfterRedirects(url, response) ==
  IF response.redirectedTo # <<>> THEN response.redirectedTo[1] ELSE url

\* line 134: baseUrl = new URL(url), the URL the worker requested
BaseUrl(url, response) == url

\* lines 203-210: title, $('title').text() || null; <<>> stands for null
ExtractTitle(response) ==
  IF IsHtml(response.contentType) /\ response.title # ""
    THEN <<response.title>>
    ELSE <<>>

\* discoveredUrls left as it was
DiscoveredAfterNone(foundUrls) == discoveredUrls

\* lines 217-218 and 232-233: every extracted link enters discoveredUrls
DiscoveredAfter(foundUrls) == discoveredUrls \cup Range(foundUrls)

\* a response with status 200 and an HTML body titled "Home", not redirected
HtmlPage(responseTime, foundUrls) ==
  [status |-> 200, contentType |-> "text/html", title |-> "Home",
   responseTime |-> responseTime, hrefs |-> foundUrls, redirectedTo |-> <<>>]

\* lines 59-65 and 314-320: the storageStats object of a new instance and of
\* initializeStorage()
InitializeStorage == [totalResults |-> 0]

\* the politeness sleep cut to half
PoliteDelayHalved == config.delayBetweenRequests \div 2

\* lines 146 and 157: the time slept after a claimed URL was processed
PoliteDelay == config.delayBetweenRequests

\* the time the worker slept in the attempt of url that is now awaiting its
\* response (line 176), 0 when the host was not marked slow
SleptInAttempt(url) ==
  LET L == Len(fetchLog[url])
  IN IF L >= 2 /\ fetchLog[url][L - 1].ev = "slowSleep"
       THEN TimerDelay(fetchLog[url][L - 1].n)
       ELSE 0

\* the response time with startTime taken at the top of the iteration, before
\* the slow-host sleep
ResponseTimeFromIterationTop(slept, elapsed) ==
  LET startTime == 0
      now == slept + elapsed
  IN now - startTime

\* lines 179 and 192: responseTime = Date.now() - startTime, on a clock that
\* read 0 when the iteration of the retry loop began; the worker slept
\* `slept`, took startTime, and the response arrived `elapsed` later
ResponseTime(slept, elapsed) ==
  LET startTime == slept
      now == slept + elapsed
  IN now - startTime

SlowDelay(host) ==
  IF host \in DOMAIN hostDelays /\ hostDelays[host] # 0
    THEN hostDelays[host]
    ELSE config.slowHostThreshold

----------------------------------------------------------------------------
(* The synchronous pieces of worker() and fetchAndParse().  They work on a *)
(* record st of the fields a worker touches before its first await:        *)
(* q (urlQueue), vis (visitedUrls), pc, cur, flog (fetchLog), wlog         *)
(* (workerLog) and slog (shiftLog).                                        *)

\* BeginAttempt applying the slow-host sleep to the first attempt only
BeginAttemptFirstOnly(st, w) ==
  LET u == st.cur[w].url
      host == Hostname(u)
  IN IF host \in slowHosts /\ st.cur[w].attempt = 0
       THEN [st EXCEPT !.pc[w] = "slowSleep",
                       !.flog[u] = Append(@, Ev("slowSleep", SlowDelay(host)))]
       ELSE [st EXCEPT !.pc[w] = "request",
                       !.flog[u] = Append(@, Ev("request", st.cur[w].attempt))]

\* top of one iteration of the retry loop, up to its first await
BeginAttempt(st, w) ==
  LET u == st.cur[w].url
      host == Hostname(u)
  IN IF host \in slowHosts
       THEN [st EXCEPT !.pc[w] = "slowSleep",
                       !.flog[u] = Append(@, Ev("slowSleep", SlowDelay(host)))]
       ELSE [st EXCEPT !.pc[w] = "request",
                       !.flog[u] = Append(@, Ev("request", st.cur[w].attempt))]

\* entry of fetchAndParse(url, depth), up to its first await
FetchAndParse(st, w, item) ==
  BeginAttempt(
    [st EXCEPT !.cur[w] = [url |-> item.url, depth |-> item.depth, attempt |-> 0],
               !.flog[item.url] = Append(@, Ev("invoke", item.depth)),
               !.wlog[w] = Append(@, Wv("claim", item.url, 0))],
    w)

\* a shift that takes the first entry and drops the one behind it
ShiftDroppingNext(queue) ==
  IF Len(queue) > 1 THEN Tail(Tail(queue)) ELSE Tail(queue)

\* line 117: what urlQueue.shift() leaves in a non-empty queue
Shift(queue) == Tail(queue)

\* the while loop without the isRunning test of line 116
RECURSIVE WorkerLoopIgnoringRunning(_, _, _)
WorkerLoopIgnoringRunning(st, w, running) ==
  IF st.q = <<>>
    THEN [st EXCEPT !.pc[w] = "done"]
    ELSE LET item == Head(st.q)
             st1 == [st EXCEPT !.q = Shift(@),
                               !.slog = Append(@, [w |-> w, url |-> item.url,
                                                   depth |-> item.depth])]
         IN IF Skip(item, st1.vis)
              THEN WorkerLoopIgnoringRunning(st1, w, running)
              ELSE FetchAndParse([st1 EXCEPT !.vis = @ \cup {item.url}], w, item)

\* the head of worker()'s while loop, up to the worker's next await or exit
RECURSIVE WorkerLoop(_, _, _)
WorkerLoop(st, w, running) ==
  IF ~running \/ st.q = <<>>
    THEN [st EXCEPT !.pc[w] = "done"]
    ELSE LET item == Head(st.q)
             st1 == [st EXCEPT !.q = Shift(@),
                               !.slog = Append(@, [w |-> w, url |-> item.url,
                                                   depth |-> item.depth])]
         IN IF Skip(item, st1.vis)
              THEN WorkerLoop(st1, w, running)
              ELSE FetchAndParse([st1 EXCEPT !.vis = @ \cup {item.url}], w, item)

\* a for loop whose workers after the first yield before their first while
\* test
RECURSIVE StartWorkersYielding(_, _)
StartWorkersYielding(st, i) ==
  IF i > config.maxConcurrency
    THEN st
    ELSE IF i = 1
           THEN StartWorkersYielding(WorkerLoop(st, i, TRUE), i + 1)
           ELSE StartWorkersYielding([st EXCEPT !.pc[i] = "politeSleep"], i + 1)

\* crawl()'s for loop: worker i runs to its first await before worker i+1 starts
RECURSIVE StartWorkers(_, _)
StartWorkers(st, i) ==
  IF i > config.maxConcurrency
    THEN st
    ELSE StartWorkers(WorkerLoop(st, i, TRUE), i + 1)

\* Admitted without the visited test of line 138
AdmittedNoVisitedCheck(url, depth, foundUrls, visited) ==
  LET keep(d) == IsSameOrigin(d, Origin(url))
      kept == SelectSeq(foundUrls, keep)
  IN [i \in 1..Len(kept) |-> [url |-> kept[i], depth |-> depth + 1]]

\* Admitted pushing the page's own depth instead of depth + 1
AdmittedSameDepth(url, depth, foundUrls, visited) ==
  LET keep(d) == d \notin visited /\ IsSameOrigin(d, Origin(url))
      kept == SelectSeq(foundUrls, keep)
  IN [i \in 1..Len(kept) |-> [url |-> kept[i], depth |-> depth]]

\* the entries the worker pushes for a fetched page, in order
Admitted(url, depth, foundUrls, visited) ==
  LET keep(d) == d \notin visited /\ IsSameOrigin(d, Origin(url))
      kept == SelectSeq(foundUrls, keep)
  IN [i \in 1..Len(kept) |-> [url |-> kept[i], depth |-> depth + 1]]

----------------------------------------------------------------------------
(* Initial state: a constructed crawler, crawl() not yet called            *)

Configs ==
  [maxDepth : 0..MaxDepthBound,
   maxConcurrency : 1..MaxWorkers,
   maxRetries : 0..MaxRetriesBound,
   retryDelay : {RetryDelayDefault},
   delayBetweenRequests : {DelayBetweenRequestsDefault},
   slowHostThreshold : {SlowHostThresholdDefault}]

\* the fields the constructor sets whatever the configuration, lines 41-68
Constructed ==
  /\ visitedUrls = {}
  /\ discoveredUrls = {}
  /\ urlQueue = <<>>
  /\ results = <<>>
  /\ isRunning = FALSE
  /\ slowHosts = {}
  /\ hostDelays = <<>>
  /\ crawlPc = "idle"
  /\ pc = [w \in Workers |-> "unborn"]
  /\ cur = [w \in Workers |-> NoLocals]
  /\ fetchLog = [u \in Urls |-> <<>>]
  /\ pushLog = <<>>
  /\ emitted = <<>>
  /\ failures = 0
  /\ storageStats = InitializeStorage
  /\ workerLog = [w \in Workers |-> <<>>]
  /\ received = <<>>
  /\ shiftLog = <<>>
  /\ overlapPc = "none"

Init ==
  /\ config \in Configs
  /\ hasListener \in BOOLEAN
  /\ Constructed
  /\ call = NoCall

----------------------------------------------------------------------------
(* Actions                                                                 *)

\* crawl(seedUrl) with a seed that parses, up to `await Promise.all(workers)`
CrawlStart(seed) ==
  /\ LET st0 == [q |-> <<[url |-> seed, depth |-> 0]>>,
                 vis |-> {},
                 pc |-> [w \in Workers |-> "unborn"],
                 cur |-> [w \in Workers |-> NoLocals],
                 flog |-> [u \in Urls |-> <<>>],
                 wlog |-> [w \in Workers |-> <<>>],
                 slog |-> <<>>]
         st == StartWorkers(st0, 1)
     IN /\ urlQueue' = st.q
        /\ visitedUrls' = st.vis
        /\ pc' = st.pc
        /\ cur' = st.cur
        /\ fetchLog' = st.flog
        /\ workerLog' = st.wlog
        /\ shiftLog' = st.slog
  /\ storageStats' = InitializeStorage
  /\ received' = <<>>
  /\ discoveredUrls' = {seed}
  /\ results' = <<>>
  /\ isRunning' = TRUE
  /\ pushLog' = <<[url |-> seed, depth |-> 0, from |-> NoUrl]>>
  /\ emitted' = <<>>
  /\ crawlPc' = "awaiting"
  /\ UNCHANGED <<overlapPc, call, config, hasListener, slowHosts, hostDelays, failures>>

\* crawl(seedUrl) with a seed that new URL refuses: lines 75-81, then the throw
\* of line 94
CrawlInvalidSeed ==
  /\ visitedUrls' = {}
  /\ discoveredUrls' = {}
  /\ urlQueue' = <<>>
  /\ results' = <<>>
  /\ isRunning' = TRUE
  /\ crawlPc' = "invalidSeed"
  /\ fetchLog' = [u \in Urls |-> <<>>]
  /\ pushLog' = <<>>
  /\ emitted' = <<>>
  /\ workerLog' = [w \in Workers |-> <<>>]
  /\ storageStats' = InitializeStorage
  /\ received' = <<>>
  /\ shiftLog' = <<>>
  /\ UNCHANGED <<overlapPc, call, config, hasListener, slowHosts, hostDelays, pc, cur, failures>>

\* crawl(seedUrl), lines 74-103
Crawl(seed) ==
  IF IsValidUrl(seed) THEN CrawlStart(seed) ELSE CrawlInvalidSeed

\* the slow-host sleep of line 176 elapses: the request is issued
SlowSleepDone(w) ==
  /\ pc[w] = "slowSleep"
  /\ pc' = [pc EXCEPT ![w] = "request"]
  /\ fetchLog' = [fetchLog EXCEPT ![cur[w].url] = Append(@, Ev("request", cur[w].attempt))]
  /\ UNCHANGED <<shiftLog, received, overlapPc, call, storageStats, config, hasListener, visitedUrls, discoveredUrls, urlQueue,
                 results, isRunning, slowHosts, hostDelays, crawlPc, cur,
                 pushLog, emitted, failures, workerLog>>

\* axios.get rejects: lines 257-269, and when the attempts are used up the
\* worker's catch block, lines 147-157
AxiosRejected(w) ==
  /\ pc[w] = "request"
  /\ failures < MaxFailures
  /\ failures' = failures + 1
  /\ LET url == cur[w].url
         attempt == cur[w].attempt
     IN IF AttemptsRemain(attempt)
          THEN /\ fetchLog' = [fetchLog EXCEPT ![url] =
                     @ \o <<Ev("failure", attempt), Ev("backoff", BackoffDelay(attempt))>>]
               /\ pc' = [pc EXCEPT ![w] = "backoff"]
               /\ emitted' = emitted
               /\ workerLog' = workerLog
          ELSE /\ fetchLog' = [fetchLog EXCEPT ![url] = Append(@, Ev("failure", attempt))]
               /\ emitted' = Append(emitted, url)
               /\ pc' = [pc EXCEPT ![w] = IF hasListener THEN "politeSleep" ELSE "rejected"]
               /\ workerLog' = [workerLog EXCEPT ![w] =
                     @ \o (IF hasListener
                             THEN <<Wv("end", url, 0), Wv("sleep", url, PoliteDelay)>>
                             ELSE <<Wv("end", url, 0)>>)]
  /\ UNCHANGED <<shiftLog, overlapPc, call, storageStats, config, hasListener, visitedUrls, discoveredUrls, urlQueue,
                 results, isRunning, slowHosts, hostDelays, crawlPc, cur, pushLog>>

\* the request fails at network level (timeout, refused connection, DNS)
ResponseFailure(w) ==
  /\ AxiosRejected(w)
  /\ received' = received

\* axios.get resolves with a response (lines 192-256), then the worker's
\* lines 130-146 up to the politeness sleep
AxiosResolved(w, response) ==
  /\ pc[w] = "request"
  /\ LET url == cur[w].url
         depth == cur[w].depth
         domain == Hostname(url)
         responseTime == ResponseTime(SleptInAttempt(url), response.responseTime)
         foundUrls == ExtractLinks(response, url)
         result == [url |-> url, depth |-> depth,
                    title |-> ExtractTitle(response),
                    status |-> response.status,
                    contentType |-> response.contentType,
                    linksFound |-> Len(foundUrls),
                    responseTime |-> responseTime, foundUrls |-> foundUrls]
         pushed == Admitted(BaseUrl(url, response), depth, foundUrls, visitedUrls)
     IN /\ slowHosts' = SlowHostsAfter(domain, responseTime)
        /\ hostDelays' = HostDelaysAfter(domain, responseTime)
        /\ discoveredUrls' = DiscoveredAfter(foundUrls)
        /\ results' = Append(results, result)
        /\ urlQueue' = urlQueue \o pushed
        /\ pushLog' = pushLog \o
             [i \in 1..Len(pushed) |->
                [url |-> pushed[i].url, depth |-> pushed[i].depth, from |-> url]]
        /\ fetchLog' = [fetchLog EXCEPT ![url] = Append(@, Ev("success", responseTime))]
        /\ workerLog' = [workerLog EXCEPT ![w] =
             @ \o <<Wv("end", url, 0), Wv("sleep", url, PoliteDelay)>>]
  /\ pc' = [pc EXCEPT ![w] = "politeSleep"]
  /\ UNCHANGED <<shiftLog, overlapPc, call, storageStats, config, hasListener, visitedUrls, isRunning,
                 crawlPc, cur, emitted, failures>>

\* the request settles with an HTTP response: axios resolves when
\* validateStatus accepts the status and rejects otherwise (lines 181-190)
Response(w, response) ==
  /\ pc[w] = "request"
  /\ received' = Append(received, [url |-> cur[w].url, status |-> response.status,
                                  contentType |-> response.contentType,
                                  hrefs |-> response.hrefs,
                                  elapsed |-> response.responseTime,
                                  redirectedTo |-> response.redirectedTo])
  /\ IF ValidateStatus(response.status)
       THEN AxiosResolved(w, response)
       ELSE AxiosRejected(w)

\* a 200 response carrying an HTML page with the links foundUrls
ResponseSuccess(w, responseTime, foundUrls) ==
  Response(w, HtmlPage(responseTime, foundUrls))

\* the backoff sleep of line 264 elapses: attempt++ and the next iteration
BackoffDone(w) ==
  /\ pc[w] = "backoff"
  /\ LET st0 == [q |-> urlQueue, vis |-> visitedUrls, pc |-> pc,
                 cur |-> [cur EXCEPT ![w].attempt = @ + 1], flog |-> fetchLog,
                 wlog |-> workerLog]
         st == BeginAttempt(st0, w)
     IN /\ pc' = st.pc
        /\ cur' = st.cur
        /\ fetchLog' = st.flog
  /\ UNCHANGED <<shiftLog, received, overlapPc, call, storageStats, config, hasListener, visitedUrls, discoveredUrls, urlQueue,
                 results, isRunning, slowHosts, hostDelays, crawlPc, pushLog,
                 emitted, failures, workerLog>>

\* the politeness sleep of line 146 or 157 elapses: back to the while condition
PoliteSleepDone(w) ==
  /\ pc[w] = "politeSleep"
  /\ LET st0 == [q |-> urlQueue, vis |-> visitedUrls, pc |-> pc,
                 cur |-> cur, flog |-> fetchLog, wlog |-> workerLog,
                 slog |-> shiftLog]
         st == WorkerLoop(st0, w, isRunning)
     IN /\ urlQueue' = st.q
        /\ visitedUrls' = st.vis
        /\ pc' = st.pc
        /\ cur' = st.cur
        /\ fetchLog' = st.flog
        /\ workerLog' = st.wlog
        /\ shiftLog' = st.slog
  /\ UNCHANGED <<received, overlapPc, call, storageStats, config, hasListener, discoveredUrls, results, isRunning,
                 slowHosts, hostDelays, crawlPc, pushLog, emitted, failures>>

\* Promise.all(workers) fulfils: lines 104-109
CrawlReturn ==
  /\ crawlPc = "awaiting"
  /\ \A w \in 1..config.maxConcurrency : pc[w] = "done"
  /\ isRunning' = FALSE
  /\ crawlPc' = "resolved"
  /\ UNCHANGED <<shiftLog, received, overlapPc, call, storageStats, config, hasListener, visitedUrls, discoveredUrls, urlQueue,
                 results, slowHosts, hostDelays, pc, cur, fetchLog, pushLog,
                 emitted, failures, workerLog>>

\* Promise.all(workers) rejects as soon as one worker's promise rejects
CrawlReject ==
  /\ crawlPc = "awaiting"
  /\ \E w \in 1..config.maxConcurrency : pc[w] = "rejected"
  /\ crawlPc' = "rejected"
  /\ UNCHANGED <<shiftLog, received, overlapPc, call, storageStats, config, hasListener, visitedUrls, discoveredUrls, urlQueue,
                 results, isRunning, slowHosts, hostDelays, pc, cur, fetchLog,
                 pushLog, emitted, failures, workerLog>>

WorkerStep(w) ==
  \/ SlowSleepDone(w)
  \/ \E rt \in ResponseTimes, links \in LinkLists : ResponseSuccess(w, rt, links)
  \/ ResponseFailure(w)
  \/ BackoffDone(w)
  \/ PoliteSleepDone(w)

\* the caller calls crawl() once on the new instance
FirstCall == crawlPc = "idle" /\ \E seed \in Seeds : Crawl(seed)

Next ==
  \/ FirstCall
  \/ \E w \in Workers : WorkerStep(w)
  \/ CrawlReturn
  \/ CrawlReject

Spec == Init /\ [][Next]_vars

\* timers fire, requests settle (axios enforces the timeout) and promise
\* continuations run; whether crawl() is ever called is up to the caller
FairSpec ==
  /\ Spec
  /\ \A w \in Workers : WF_vars(WorkerStep(w))
  /\ WF_vars(CrawlReturn)
  /\ WF_vars(CrawlReject)

----------------------------------------------------------------------------
(* Host state under varied thresholds and response times: one worker, one  *)
(* level of links, a listener registered.                                  *)

\* slowHostThreshold values: the default, a lower one, and a negative one
Thresholds == {0 - 1, 5000, SlowHostThresholdDefault}

HostConfigs ==
  [maxDepth : {1},
   maxConcurrency : {1},
   maxRetries : {0, 1},
   retryDelay : {RetryDelayDefault},
   delayBetweenRequests : {DelayBetweenRequestsDefault},
   slowHostThreshold : Thresholds]

\* response times at, below and above the thresholds and the cap
HostResponseTimes == {0, 6000, 9000, 15000, 16000}

HostLinkLists == { <<>>, <<PageP1, PageP2>> }

InitHost ==
  /\ config \in HostConfigs
  /\ hasListener = TRUE
  /\ Constructed
  /\ call = NoCall

WorkerStepHost(w) ==
  \/ SlowSleepDone(w)
  \/ \E rt \in HostResponseTimes, links \in HostLinkLists :
       ResponseSuccess(w, rt, links)
  \/ ResponseFailure(w)
  \/ BackoffDone(w)
  \/ PoliteSleepDone(w)

NextHost ==
  \/ FirstCall
  \/ \E w \in Workers : WorkerStepHost(w)
  \/ CrawlReturn

HostSpec == InitHost /\ [][NextHost]_vars

----------------------------------------------------------------------------
(* Several crawl() calls on one instance, each made after the one before   *)
(* has settled; the pages of a.test link to a fourth page /p3.             *)

SeqConfigs ==
  [maxDepth : {1},
   maxConcurrency : {2},
   maxRetries : {0, 1},
   retryDelay : {RetryDelayDefault},
   delayBetweenRequests : {DelayBetweenRequestsDefault},
   slowHostThreshold : {SlowHostThresholdDefault}]

SeqLinkLists ==
  { <<>>,
    <<PageP1, PageP2>>,
    <<PageP3, PageP2>>,
    <<PageP3, Foreign>> }

InitSeq ==
  /\ config \in SeqConfigs
  /\ hasListener \in BOOLEAN
  /\ Constructed
  /\ call = NoCall

\* the caller calls crawl() when no call is pending
NextCall ==
  /\ crawlPc \in {"idle", "resolved", "rejected", "invalidSeed"}
  /\ \E seed \in Seeds : Crawl(seed)

WorkerStepSeq(w) ==
  \/ SlowSleepDone(w)
  \/ \E rt \in ResponseTimes, links \in SeqLinkLists : ResponseSuccess(w, rt, links)
  \/ ResponseFailure(w)
  \/ BackoffDone(w)
  \/ PoliteSleepDone(w)

NextSeq ==
  \/ NextCall
  \/ \E w \in Workers : WorkerStepSeq(w)
  \/ CrawlReturn
  \/ CrawlReject

SeqSpec == InitSeq /\ [][NextSeq]_vars

----------------------------------------------------------------------------
(* Responses of every kind: HTTP statuses of the 2xx, 4xx and 5xx classes, *)
(* HTML and other content types, bodies with and without title and links.  *)
(* One worker, one level of links, a listener registered.                  *)

Statuses == {200, 404, 500}

ContentConfigs ==
  [maxDepth : {1},
   maxConcurrency : {1},
   maxRetries : {0, 1},
   retryDelay : {RetryDelayDefault},
   delayBetweenRequests : {DelayBetweenRequestsDefault},
   slowHostThreshold : {SlowHostThresholdDefault}]

\* what a server can answer: the status line, the content-type header, and
\* in the body a <title> text and the href values; redirectedTo is the URL the
\* response came from when the request was redirected (maxRedirects, line 189)
Responses ==
  [status : Statuses,
   contentType : ContentTypes,
   title : {"", "Home"},
   responseTime : ResponseTimes,
   hrefs : { <<>>, <<PageP1, Foreign>> },
   redirectedTo : { <<>> }]

InitContent ==
  /\ config \in ContentConfigs
  /\ hasListener = TRUE
  /\ Constructed
  /\ call = NoCall

WorkerStepContent(w) ==
  \/ SlowSleepDone(w)
  \/ \E response \in Responses : Response(w, response)
  \/ ResponseFailure(w)
  \/ BackoffDone(w)
  \/ PoliteSleepDone(w)

NextContent ==
  \/ FirstCall
  \/ \E w \in Workers : WorkerStepContent(w)
  \/ CrawlReturn

ContentSpec == InitContent /\ [][NextContent]_vars

----------------------------------------------------------------------------
(* A second crawl() call made on the instance while the first call is      *)
(* pending.  The first call runs workers 1..maxConcurrency, the second     *)
(* call the same number of workers numbered after them.  One worker per    *)
(* call, no retries, fast responses, a listener registered.                *)

ReentrantConfigs ==
  [maxDepth : {1},
   maxConcurrency : {1},
   maxRetries : {0},
   retryDelay : {RetryDelayDefault},
   delayBetweenRequests : {DelayBetweenRequestsDefault},
   slowHostThreshold : {SlowHostThresholdDefault}]

\* the seeds of the second call: the first call's seed, another page, a
\* string that does not parse
OverlapSeeds == {SeedPage, PageP1, BadSeed}

ReentrantLinkLists == { <<>>, <<PageP1, PageP2>>, <<SeedPage, PageP2>> }

ReentrantResponseTimes == {100}

InitReentrant ==
  /\ config \in ReentrantConfigs
  /\ hasListener = TRUE
  /\ Constructed
  /\ call = NoCall

\* the workers the second call starts
OverlapWorkers == (config.maxConcurrency + 1)..(2 * config.maxConcurrency)

\* the second call's for loop, lines 99-101
RECURSIVE StartOverlapWorkers(_, _)
StartOverlapWorkers(st, i) ==
  IF i > 2 * config.maxConcurrency
    THEN st
    ELSE StartOverlapWorkers(WorkerLoop(st, i, TRUE), i + 1)

\* the second crawl(seed) with a seed that parses, up to its
\* `await Promise.all(workers)`: lines 75-103 run on the state the first call
\* is working on; the first call's workers stay where they are
CrawlOverlapStart(seed) ==
  /\ LET st0 == [q |-> <<[url |-> seed, depth |-> 0]>>,
                 vis |-> {},
                 pc |-> pc,
                 cur |-> cur,
                 flog |-> fetchLog,
                 wlog |-> workerLog,
                 slog |-> shiftLog]
         st == StartOverlapWorkers(st0, config.maxConcurrency + 1)
     IN /\ urlQueue' = st.q
        /\ visitedUrls' = st.vis
        /\ pc' = st.pc
        /\ cur' = st.cur
        /\ fetchLog' = st.flog
        /\ workerLog' = st.wlog
        /\ shiftLog' = st.slog
  /\ storageStats' = InitializeStorage
  /\ discoveredUrls' = {seed}
  /\ results' = <<>>
  /\ isRunning' = TRUE
  /\ pushLog' = Append(pushLog, [url |-> seed, depth |-> 0, from |-> NoUrl])
  /\ overlapPc' = "awaiting"
  /\ UNCHANGED <<received, call, config, hasListener, slowHosts, hostDelays,
                 failures, emitted, crawlPc>>

\* the second crawl(seed) with a seed that new URL refuses: lines 75-81, then
\* the throw of line 94
CrawlOverlapInvalidSeed ==
  /\ visitedUrls' = {}
  /\ discoveredUrls' = {}
  /\ urlQueue' = <<>>
  /\ results' = <<>>
  /\ isRunning' = TRUE
  /\ storageStats' = InitializeStorage
  /\ overlapPc' = "invalidSeed"
  /\ UNCHANGED <<received, call, config, hasListener, slowHosts, hostDelays,
                 failures, emitted, crawlPc, pc, cur, fetchLog, workerLog,
                 shiftLog, pushLog>>

\* the caller calls crawl() again while the first call is pending
CrawlOverlap ==
  /\ crawlPc = "awaiting"
  /\ overlapPc = "none"
  /\ 2 * config.maxConcurrency <= MaxWorkers
  /\ \E seed \in OverlapSeeds :
       IF IsValidUrl(seed) THEN CrawlOverlapStart(seed) ELSE CrawlOverlapInvalidSeed

\* the second call's Promise.all(workers) fulfils: lines 104-109
OverlapReturn ==
  /\ overlapPc = "awaiting"
  /\ \A w \in OverlapWorkers : pc[w] = "done"
  /\ isRunning' = FALSE
  /\ overlapPc' = "resolved"
  /\ UNCHANGED <<shiftLog, received, call, storageStats, config, hasListener,
                 visitedUrls, discoveredUrls, urlQueue, results, slowHosts,
                 hostDelays, pc, cur, fetchLog, pushLog, emitted, failures,
                 workerLog, crawlPc>>

WorkerStepReentrant(w) ==
  \/ \E rt \in ReentrantResponseTimes, links \in ReentrantLinkLists :
       ResponseSuccess(w, rt, links)
  \/ ResponseFailure(w)
  \/ PoliteSleepDone(w)

NextReentrant ==
  \/ FirstCall
  \/ CrawlOverlap
  \/ \E w \in Workers : WorkerStepReentrant(w)
  \/ CrawlReturn
  \/ OverlapReturn

ReentrantSpec == InitReentrant /\ [][NextReentrant]_vars

----------------------------------------------------------------------------
(* Redirected requests and relative links: axios follows redirects, and    *)
(* the body it delivers is that of the URL the last redirect led to, on    *)
(* the seed's site or on another.  One worker, no retries, a listener      *)
(* registered.                                                             *)

RedirectConfigs ==
  [maxDepth : {1, 2},
   maxConcurrency : {1},
   maxRetries : {0},
   retryDelay : {RetryDelayDefault},
   delayBetweenRequests : {DelayBetweenRequestsDefault},
   slowHostThreshold : {SlowHostThresholdDefault}]

RedirectResponses ==
  [status : {200},
   contentType : {"text/html"},
   title : {"Home"},
   responseTime : ReentrantResponseTimes,
   hrefs : { <<>>, <<Rel("/p1"), Foreign>>, <<Rel("/p2"), MailTo>> },
   redirectedTo : { <<>>, <<PageP2>>, <<Foreign>> }]

InitRedirect ==
  /\ config \in RedirectConfigs
  /\ hasListener = TRUE
  /\ Constructed
  /\ call = NoCall

WorkerStepRedirect(w) ==
  \/ \E response \in RedirectResponses : Response(w, response)
  \/ ResponseFailure(w)
  \/ PoliteSleepDone(w)

NextRedirect ==
  \/ FirstCall
  \/ \E w \in Workers : WorkerStepRedirect(w)
  \/ CrawlReturn

RedirectSpec == InitRedirect /\ [][NextRedirect]_vars

----------------------------------------------------------------------------
(* isSameOrigin called directly on a constructed instance, as the basic    *)
(* test of src/unnamed/part_003 does                                       *)

\* https://a.test/page and strings that differ from it in one respect; strings
\* that do not parse; strings of other schemes
UrlStrings ==
  { UrlText("https", "a.test", <<>>, "/page", <<>>),
    UrlText("https", "a.test", <<443>>, "/page", <<>>),
    UrlText("https", "a.test", <<8443>>, "/page", <<>>),
    UrlText("http", "a.test", <<>>, "/page", <<>>),
    UrlText("http", "a.test", <<80>>, "/page", <<>>),
    UrlText("https", "b.test", <<>>, "/page", <<>>),
    UrlText("https", "A.TEST", <<>>, "/page", <<>>),
    UrlText("HTTPS", "a.test", <<>>, "/page", <<>>),
    UrlText("", "a.test", <<>>, "/page", <<>>),
    UrlText("https", "", <<>>, "", <<>>),
    UrlText("https", "a.test", <<70000>>, "/", <<>>),
    UrlText("mailto", "", <<>>, "x@a.test", <<>>),
    UrlText("blob", "", <<>>, "",
            <<UrlText("https", "a.test", <<>>, "/uuid", <<>>)>>),
    UrlText("blob", "", <<>>, "",
            <<UrlText("https", "b.test", <<>>, "/uuid", <<>>)>>) }

\* origins as url.origin gives them, "null", and the origin of a.test written
\* with its default port, with a trailing slash and in upper case
OriginStrings ==
  { OriginText("https", "a.test", <<>>, ""),
    OriginText("http", "a.test", <<>>, ""),
    OriginText("https", "a.test", <<8443>>, ""),
    OriginText("https", "b.test", <<>>, ""),
    NullOrigin,
    OriginText("https", "a.test", <<443>>, ""),
    OriginText("https", "a.test", <<>>, "/"),
    OriginText("https", "A.TEST", <<>>, "") }

InitOrigin ==
  /\ config \in ContentConfigs
  /\ hasListener = TRUE
  /\ Constructed
  /\ call \in [fn : {"isSameOrigin"}, urlString : UrlStrings,
               origin : OriginStrings, ret : {"pending"}]

\* the call runs: lines 278-285
CallIsSameOrigin ==
  /\ call.fn = "isSameOrigin"
  /\ call.ret = "pending"
  /\ call' = [call EXCEPT !.ret = IsSameOriginCall(call.urlString, call.origin)]
  /\ UNCHANGED <<config, hasListener, visitedUrls, discoveredUrls, urlQueue,
                 results, isRunning, slowHosts, hostDelays, crawlPc, pc, cur,
                 fetchLog, pushLog, emitted, failures, storageStats, workerLog,
                 received, shiftLog, overlapPc>>

NextOrigin == CallIsSameOrigin

OriginSpec == InitOrigin /\ [][NextOrigin]_vars

TypeOK ==
  /\ visitedUrls \subseteq Urls
  /\ discoveredUrls \subseteq Urls
  /\ slowHosts \subseteq Hosts
  /\ crawlPc \in {"idle", "awaiting", "resolved", "rejected", "invalidSeed"}
  /\ overlapPc \in {"none", "awaiting", "resolved", "invalidSeed"}
  /\ \A w \in Workers :
       pc[w] \in {"unborn", "slowSleep", "request", "backoff", "politeSleep",
                  "done", "rejected"}

----------------------------------------------------------------------------
(* Observations on a state, used by the properties below                   *)

\* a worker inside fetchAndParse: it dequeued an entry and its fetch has
\* neither produced a result nor failed for good
MidFetch == {"slowSleep", "request", "backoff"}

InFlight == Cardinality({w \in Workers : pc[w] \in MidFetch})

IsInvoke(e) == e.ev = "invoke"
IsRequest(e) == e.ev = "request"
IsFailure(e) == e.ev = "failure"
IsSuccess(e) == e.ev = "success"
IsBackoff(e) == e.ev = "backoff"
IsSlowSleep(e) == e.ev = "slowSleep"
IsSleep(e) == e.ev \in {"backoff", "slowSleep"}

Invocations(u) == Len(SelectSeq(fetchLog[u], IsInvoke))
Requests(u) == Len(SelectSeq(fetchLog[u], IsRequest))
Failed(u) == Len(SelectSeq(fetchLog[u], IsFailure))
Succeeded(u) == Len(SelectSeq(fetchLog[u], IsSuccess))

\* fetchAndParse was called for u and no worker is inside that call any more
FetchOver(u) ==
  /\ Invocations(u) >= 1
  /\ \A w \in Workers : ~(pc[w] \in MidFetch /\ cur[w].url = u)

ResultsFor(u) == {i \in 1..Len(results) : results[i].url = u}

EmitCount(u) == Cardinality({i \in 1..Len(emitted) : emitted[i] = u})

PushesOf(u) == {i \in 1..Len(pushLog) : pushLog[i].url = u}

Settled == crawlPc \in {"resolved", "rejected"}

----------------------------------------------------------------------------
(* C1  No double-fetch: in one crawl() run fetchAndParse is invoked at most *)
(* once for every URL, also when the URL was pushed to the queue several    *)
(* times before it was first dequeued; a URL is added to visitedUrls        *)
(* exactly when its single fetch is started.                                *)

C1_NoDoubleFetch ==
  \A u \in Urls : Invocations(u) = (IF u \in visitedUrls THEN 1 ELSE 0)

\* a URL pushed by two different pages before its first dequeue, fetched, run over
C1_Witness ==
  /\ crawlPc = "resolved"
  /\ \E u \in visitedUrls :
       \E i, j \in PushesOf(u) : pushLog[i].from # pushLog[j].from
                                 /\ pushLog[i].from # NoUrl
                                 /\ pushLog[j].from # NoUrl

----------------------------------------------------------------------------
(* C2  Termination completeness: when every fetch succeeds and every link  *)
(* found is same-origin with the seed, a started crawl() eventually         *)
(* returns, and then visitedUrls is the set of URLs within maxDepth link    *)
(* hops of the seed and urlQueue is empty.                                  *)

SeedOf == pushLog[1].url

LinksOf(u) == UNION {Range(results[i].foundUrls) : i \in ResultsFor(u)}

\* the URLs at most k link hops from the seed, over the links the pages carried
RECURSIVE Within(_)
Within(k) ==
  IF k = 0 THEN {SeedOf}
  ELSE Within(k - 1) \cup UNION {LinksOf(u) : u \in Within(k - 1)}

AllSucceedSameOrigin ==
  /\ failures = 0
  /\ \A i \in 1..Len(results) :
       \A d \in Range(results[i].foundUrls) : Origin(d) = Origin(SeedOf)

C2_TerminationCompleteness ==
  /\ [](crawlPc = "awaiting" =>
          <>(crawlPc = "resolved" \/ ~AllSucceedSameOrigin))
  /\ [](crawlPc = "resolved" /\ AllSucceedSameOrigin =>
          visitedUrls = Within(config.maxDepth) /\ urlQueue = <<>>)

\* a finished run with two workers in which a reachable page lay beyond maxDepth
C2_Witness ==
  /\ crawlPc = "resolved"
  /\ AllSucceedSameOrigin
  /\ config.maxConcurrency >= 2
  /\ Cardinality(visitedUrls) >= 2
  /\ \E i \in 1..Len(pushLog) : pushLog[i].depth > config.maxDepth
                                /\ pushLog[i].url \notin visitedUrls

----------------------------------------------------------------------------
(* C3  A worker that saw the queue empty has not exited while another       *)
(* worker is still between dequeuing an entry and finishing its link        *)
(* admission: when some worker has exited, no worker is mid-fetch.          *)

C3_NoExitWhileFetching ==
  (\E w \in Workers : pc[w] = "done") => InFlight = 0

----------------------------------------------------------------------------
(* C4  Termination contract: whenever the promise of crawl() has settled,   *)
(* urlQueue is empty and no worker is between dequeuing an entry and the    *)
(* end of its processing.                                                   *)

C4_TerminationContract ==
  Settled => /\ urlQueue = <<>>
             /\ \A w \in Workers : pc[w] \notin MidFetch \cup {"politeSleep"}

----------------------------------------------------------------------------
(* C5  maxConcurrency workers drain the frontier concurrently: with         *)
(* maxConcurrency = N >= 2, once a page has admitted at least N different   *)
(* unvisited same-origin links that are within the depth bound, N fetches   *)
(* come to be in flight at the same time (unless a request fails first),    *)
(* and never more than N fetches are in flight.                             *)

\* some fetched page pushed at least n different URLs that will be fetched
AdmittedAtLeast(n) ==
  \E i \in 1..Len(results) :
    Cardinality({pushLog[j].url : j \in
                   {k \in 1..Len(pushLog) : /\ pushLog[k].from = results[i].url
                                            /\ pushLog[k].depth <= config.maxDepth}})
      >= n

C5_ConcurrentFetches ==
  /\ [](InFlight <= config.maxConcurrency)
  /\ [](config.maxConcurrency >= 2 /\ AdmittedAtLeast(config.maxConcurrency) =>
          <>(InFlight = config.maxConcurrency \/ failures > 0))

----------------------------------------------------------------------------
(* C6  No fetch failure is fatal to a started run, with or without an       *)
(* 'error' listener: no worker() call and no crawl() call ever rejects, so  *)
(* the worker goes on with the remaining entries and crawl() resolves.      *)

C6_NoFetchFailureIsFatal ==
  /\ crawlPc # "rejected"
  /\ \A w \in Workers : pc[w] # "rejected"

----------------------------------------------------------------------------
(* C7  Retry exhaustion: a URL never gets more than maxRetries+1 request   *)
(* attempts, and a URL whose fetch is over with every attempt failed got    *)
(* exactly maxRetries+1 attempts, exactly one emit('error') and no Result;  *)
(* no other URL has an error signal.                                        *)

AllAttemptsFailed(u) == FetchOver(u) /\ Succeeded(u) = 0

C7_RetryExhaustion ==
  \A u \in Urls :
    /\ Requests(u) <= config.maxRetries + 1
    /\ AllAttemptsFailed(u) =>
         /\ Requests(u) = config.maxRetries + 1
         /\ Failed(u) = config.maxRetries + 1
         /\ EmitCount(u) = 1
         /\ ResultsFor(u) = {}
    /\ ~AllAttemptsFailed(u) => EmitCount(u) = 0

\* a URL that used up three attempts while another URL of the run has a Result
C7_Witness ==
  \E u \in Urls :
    /\ AllAttemptsFailed(u)
    /\ config.maxRetries = 2
    /\ Requests(u) = 3
    /\ Len(results) >= 1

----------------------------------------------------------------------------
(* C8  Backoff schedule.  As stated: a fetch that fails k times and then    *)
(* succeeds makes k+1 request attempts and exactly k sleeps occur inside    *)
(* it, of retryDelay*2^0, ..., retryDelay*2^(k-1) in order, whatever the    *)
(* slow-host state of the host.                                             *)

SleepsIn(u) ==
  LET sl == SelectSeq(fetchLog[u], IsSleep) IN [i \in 1..Len(sl) |-> sl[i].n]

BackoffsIn(u) ==
  LET sl == SelectSeq(fetchLog[u], IsBackoff) IN [i \in 1..Len(sl) |-> sl[i].n]

Schedule(k) == [i \in 1..k |-> config.retryDelay * Pow2(i - 1)]

C8_BackoffScheduleAllSleeps ==
  \A u \in Urls :
    Succeeded(u) = 1 =>
      /\ Requests(u) = Failed(u) + 1
      /\ SleepsIn(u) = Schedule(Failed(u))

(* C8 as amended: a fetch that fails k times and then succeeds makes k+1    *)
(* request attempts and exactly k backoff sleeps, of retryDelay*2^0, ...,   *)
(* retryDelay*2^(k-1) in order; every other sleep inside the fetch is a     *)
(* slow-host sleep that directly precedes one request attempt, so the       *)
(* fetch holds exactly those k sleeps only when no attempt met its host     *)
(* marked slow.                                                             *)

C8_BackoffSchedule ==
  \A u \in Urls :
    Succeeded(u) = 1 =>
      /\ Requests(u) = Failed(u) + 1
      /\ BackoffsIn(u) = Schedule(Failed(u))
      /\ \A i \in 1..Len(fetchLog[u]) :
           IsSlowSleep(fetchLog[u][i]) =>
             /\ i < Len(fetchLog[u])
             /\ IsRequest(fetchLog[u][i + 1])
             /\ ~IsRequest(fetchLog[u][i - 1])
      /\ (\A i \in 1..Len(fetchLog[u]) : ~IsSlowSleep(fetchLog[u][i])) =>
           SleepsIn(u) = Schedule(Failed(u))

\* a fetch on a host already marked slow that failed twice and then succeeded
C8_Witness ==
  \E u \in Urls :
    /\ Succeeded(u) = 1
    /\ Failed(u) = 2
    /\ Len(SelectSeq(fetchLog[u], IsSlowSleep)) = 3
    /\ BackoffsIn(u) = <<1000, 2000>>

----------------------------------------------------------------------------
(* C9  Depth bound: every Result has depth <= maxDepth, and fetchAndParse   *)
(* is never invoked (no request is issued) for an entry deeper than         *)
(* maxDepth.                                                                *)

C9_DepthBound ==
  /\ \A i \in 1..Len(results) : results[i].depth <= config.maxDepth
  /\ \A u \in Urls : \A i \in 1..Len(fetchLog[u]) :
       IsInvoke(fetchLog[u][i]) => fetchLog[u][i].n <= config.maxDepth

\* an entry deeper than maxDepth was pushed, dequeued and dropped
C9_Witness ==
  /\ crawlPc = "resolved"
  /\ urlQueue = <<>>
  /\ \E i \in 1..Len(pushLog) : /\ pushLog[i].depth > config.maxDepth
                                /\ pushLog[i].url \notin visitedUrls

----------------------------------------------------------------------------
(* C10  Origin containment: every Result but the seed's has the origin of   *)
(* an earlier Result's page whose extracted links contain its URL, and no   *)
(* link is pushed whose origin differs from the discovering page's origin.  *)

C10_OriginContainment ==
  /\ \A i \in 1..Len(results) :
       results[i].url # SeedOf =>
         \E j \in 1..Len(results) :
           /\ j < i
           /\ Origin(results[j].url) = Origin(results[i].url)
           /\ results[i].url \in Range(results[j].foundUrls)
  /\ \A i \in 1..Len(pushLog) :
       pushLog[i].from # NoUrl => Origin(pushLog[i].url) = Origin(pushLog[i].from)

\* a page with a foreign link was fetched, the link was not admitted, the run ended
C10_Witness ==
  /\ crawlPc = "resolved"
  /\ Len(results) >= 2
  /\ \E i \in 1..Len(results) : Foreign \in Range(results[i].foundUrls)
  /\ Foreign \notin visitedUrls

----------------------------------------------------------------------------
(* Observations on a step                                                  *)

\* this step handled a successful response for u
Responded(u) ==
  /\ crawlPc = "awaiting"
  /\ Len(fetchLog'[u]) = Len(fetchLog[u]) + 1
  /\ IsSuccess(fetchLog'[u][Len(fetchLog'[u])])

RespondedTime(u) == fetchLog'[u][Len(fetchLog'[u])].n

\* this step issued a request for u
Issued(u) ==
  /\ Len(fetchLog'[u]) > 0
  /\ IsRequest(fetchLog'[u][Len(fetchLog'[u])])
  /\ Len(SelectSeq(fetchLog'[u], IsRequest)) = Requests(u) + 1

\* the time slept directly before the request just issued for u (0: no sleep)
SleptBeforeIssue(u) ==
  LET L == Len(fetchLog'[u])
  IN IF L >= 2 /\ IsSlowSleep(fetchLog'[u][L - 1])
       THEN TimerDelay(fetchLog'[u][L - 1].n)
       ELSE 0

\* the Results of host h whose response time was over the threshold
MarkingResults(h) ==
  {i \in 1..Len(results) : /\ Hostname(results[i].url) = h
                           /\ results[i].responseTime > config.slowHostThreshold}

SetMax(S) == CHOOSE x \in S : \A y \in S : y <= x

----------------------------------------------------------------------------
(* C11  Slow marking condition.  As stated: a successful response whose     *)
(* response time is greater than or equal to slowHostThreshold marks the    *)
(* host slow with delay min(responseTime, 10000); a response time strictly  *)
(* below the threshold leaves the host state alone.                         *)

C11_SlowMarkingAtOrAbove ==
  [][\A u \in Urls :
       Responded(u) =>
         LET rt == RespondedTime(u)
             h == Hostname(u)
         IN /\ rt >= config.slowHostThreshold =>
                 /\ h \in slowHosts'
                 /\ h \in DOMAIN hostDelays'
                 /\ hostDelays'[h] = Min(rt, HostDelayCap)
            /\ rt < config.slowHostThreshold =>
                 /\ slowHosts' = slowHosts
                 /\ hostDelays' = hostDelays]_vars

(* C11 as amended: a successful response whose response time is strictly    *)
(* greater than slowHostThreshold marks the host slow with delay            *)
(* min(responseTime, 10000); a response time equal to or below the          *)
(* threshold leaves the host state alone.                                   *)

C11_SlowMarking ==
  [][\A u \in Urls :
       Responded(u) =>
         LET rt == RespondedTime(u)
             h == Hostname(u)
         IN /\ rt > config.slowHostThreshold =>
                 /\ h \in slowHosts'
                 /\ h \in DOMAIN hostDelays'
                 /\ hostDelays'[h] = Min(rt, HostDelayCap)
            /\ rt <= config.slowHostThreshold =>
                 /\ slowHosts' = slowHosts
                 /\ hostDelays' = hostDelays]_vars

\* a response exactly at the threshold left the host unmarked, the next one,
\* above the threshold and the cap, marked it
C11_Witness ==
  /\ Len(results) = 2
  /\ results[1].responseTime = config.slowHostThreshold
  /\ results[2].responseTime = 16000
  /\ slowHosts = {"a.test"}
  /\ hostDelays["a.test"] = HostDelayCap

----------------------------------------------------------------------------
(* C12  Slow-host adaptation.  As stated: once a host is marked slow with   *)
(* measured time t, every later request attempt to it, first attempt or     *)
(* retry, is directly preceded by a sleep of at least min(t, 10000).        *)

C12_SleepAtLeastAnyMarking ==
  [][\A u \in Urls :
       Issued(u) /\ Hostname(u) \in slowHosts =>
         \A i \in MarkingResults(Hostname(u)) :
           SleptBeforeIssue(u) >= Min(results[i].responseTime, HostDelayCap)]_vars

(* C12 as amended: every request attempt to a host that is marked slow,     *)
(* first attempt or retry, is directly preceded by a sleep of at least      *)
(* min(t, 10000), where t is the response time of the most recent response  *)
(* of that host that was over the threshold (a later over-threshold         *)
(* response replaces the delay, also by a smaller one).                     *)

C12_SlowHostAdaptation ==
  [][\A u \in Urls :
       Issued(u) /\ Hostname(u) \in slowHosts =>
         /\ SleptBeforeIssue(u) >= 1
         /\ MarkingResults(Hostname(u)) # {} =>
              SleptBeforeIssue(u) >=
                Min(results[SetMax(MarkingResults(Hostname(u)))].responseTime,
                    HostDelayCap)]_vars

\* the host was marked with 9000 ms and then with 6000 ms; the third page
\* slept 6000 ms before its first attempt and again before its retry
C12_Witness ==
  /\ Len(results) = 2
  /\ results[1].responseTime = 9000
  /\ results[2].responseTime = 6000
  /\ config.slowHostThreshold = 5000
  /\ \E u \in Urls :
       fetchLog[u] = <<Ev("invoke", 1), Ev("slowSleep", 6000), Ev("request", 0),
                       Ev("failure", 0), Ev("backoff", 1000),
                       Ev("slowSleep", 6000), Ev("request", 1)>>

----------------------------------------------------------------------------
(* C13  Slow-host scenario: with slowHostThreshold = 15000, when the host's *)
(* first response takes 16000 ms, a Result is produced, the host is marked  *)
(* slow, and the next request to the host is delayed by at least 15000 ms.  *)

C13_SlowHostScenario ==
  /\ config.slowHostThreshold = 15000
  /\ pushLog # <<>>
  /\ fetchLog[SeedOf] = <<Ev("invoke", 0), Ev("request", 0), Ev("success", 16000)>>
  => /\ Len(results) >= 1
     /\ results[1].url = SeedOf
     /\ Hostname(SeedOf) \in slowHosts
     /\ \A u \in Urls \ {SeedOf} :
          Hostname(u) = Hostname(SeedOf) /\ Requests(u) >= 1 =>
            /\ IsSlowSleep(fetchLog[u][2])
            /\ TimerDelay(fetchLog[u][2].n) >= 15000

----------------------------------------------------------------------------
(* C14  Slow marking is monotonic: a host in slowHosts stays in slowHosts   *)
(* in every later state of the run, whatever it answers afterwards.         *)

C14_SlowMonotonic == [][slowHosts \subseteq slowHosts']_vars

\* after the marking response came a fast response and a failed request
C14_Witness ==
  /\ Len(results) >= 2
  /\ results[1].responseTime > config.slowHostThreshold
  /\ results[2].responseTime < config.slowHostThreshold
  /\ \E u \in Urls \ {results[1].url, results[2].url} : Failed(u) >= 1
  /\ Hostname(results[1].url) \in slowHosts

----------------------------------------------------------------------------
(* C15  Delay cap: every delay recorded in hostDelays is at most 10000 ms   *)
(* and every slow-host sleep applied before a request is at most 10000 ms,  *)
(* for every threshold and response time.                                   *)

----------------------------------------------------------------------------
(* C16  Admission enforces the depth bound: a link found on a page of depth *)
(* d is not appended to urlQueue when d + 1 > maxDepth, so every entry of   *)
(* urlQueue has depth <= maxDepth in every reachable state.                 *)

C16_AdmissionDepthBound ==
  /\ \A i \in 1..Len(urlQueue) : urlQueue[i].depth <= config.maxDepth
  /\ \A k \in 1..Len(pushLog) : pushLog[k].depth <= config.maxDepth

----------------------------------------------------------------------------
(* C17  Admission deduplicates.  As stated: a URL that was already admitted *)
(* is not appended to urlQueue again, so over a run every URL is pushed at  *)
(* most once and urlQueue never holds two entries with the same URL.        *)

C17_PushedAtMostOnce ==
  /\ \A u \in Urls : Cardinality(PushesOf(u)) <= 1
  /\ \A i, j \in 1..Len(urlQueue) :
       i # j => urlQueue[i].url # urlQueue[j].url

(* C17 as amended: a link whose URL is in visitedUrls when its page is      *)
(* handled is not appended to urlQueue; a URL that is queued but not yet    *)
(* visited can be appended again, so urlQueue can hold several entries with *)
(* the same URL, and the duplicates are dropped when they are dequeued:     *)
(* every URL is handed to fetchAndParse at most once.                       *)

C17_AdmissionDedup ==
  [][/\ crawlPc = "awaiting" =>
          \A k \in (Len(pushLog) + 1)..Len(pushLog') :
            pushLog'[k].url \notin visitedUrls
     /\ \A u \in Urls : Len(SelectSeq(fetchLog'[u], IsInvoke)) <= 1]_vars

\* a page linked back to the visited seed, which was not pushed again, and
\* to a page that was already queued, which now is in the queue twice
C17_Witness ==
  /\ pushLog # <<>>
  /\ Cardinality(PushesOf(SeedOf)) = 1
  /\ \E i \in 1..Len(results) :
       /\ results[i].url # SeedOf
       /\ SeedOf \in Range(results[i].foundUrls)
  /\ \E a, b \in 1..Len(urlQueue) :
       a < b /\ urlQueue[a].url = urlQueue[b].url

----------------------------------------------------------------------------
(* C18  Invalid seed fails fast: crawl(seedUrl) with a seed that does not   *)
(* parse as an absolute URL rejects with the invalid-seed error; no worker  *)
(* is started, no queue entry is created and no request is issued for it.   *)

C18_InvalidSeedFailsFast ==
  /\ BadSeed \notin visitedUrls
  /\ \A k \in 1..Len(pushLog) : pushLog[k].url # BadSeed
  /\ \A i \in 1..Len(urlQueue) : urlQueue[i].url # BadSeed
  /\ \A w \in Workers : cur[w].url # BadSeed
  /\ crawlPc = "invalidSeed" =>
       /\ urlQueue = <<>>
       /\ pushLog = <<>>
       /\ \A u \in Urls : fetchLog[u] = <<>>
       /\ \A w \in Workers : pc[w] \in {"unborn", "done", "rejected"}

\* the call with the unparsable seed has thrown
C18_Witness ==
  /\ crawlPc = "invalidSeed"
  /\ pushLog = <<>>
  /\ \A w \in Workers : pc[w] = "unborn"

----------------------------------------------------------------------------
(* C19  A crawl() call that fails with an invalid seed leaves the crawl     *)
(* state of the instance as it was before the call: visitedUrls,            *)
(* discoveredUrls, urlQueue and results of a previous run are unchanged and *)
(* isRunning is false afterwards.                                           *)

C19_InvalidSeedLeavesState ==
  [][crawlPc # "invalidSeed" /\ crawlPc' = "invalidSeed" =>
       /\ visitedUrls' = visitedUrls
       /\ discoveredUrls' = discoveredUrls
       /\ urlQueue' = urlQueue
       /\ results' = results
       /\ isRunning' = FALSE]_vars

----------------------------------------------------------------------------
(* C20  Scenario: the seed (depth 0) links to the same-origin pages /p1 and *)
(* /p2, maxDepth = 1, maxConcurrency = 2 and every fetch succeeds: crawl()  *)
(* returns exactly 3 Results, all of the seed's origin, and no request is   *)
(* issued for a depth-2 URL, whatever /p1 and /p2 link to.                  *)

C20_ThreePageScenario ==
  /\ config.maxDepth = 1
  /\ config.maxConcurrency = 2
  /\ Len(results) >= 1
  /\ results[1].url = SeedPage
  /\ results[1].foundUrls = <<PageP1, PageP2>>
  /\ \A u \in Urls : Failed(u) = 0
  => /\ \A u \in Urls \ {SeedPage, PageP1, PageP2} : fetchLog[u] = <<>>
     /\ \A u \in Urls : \A i \in 1..Len(fetchLog[u]) :
          IsInvoke(fetchLog[u][i]) => fetchLog[u][i].n <= 1
     /\ crawlPc = "resolved" =>
          /\ Len(results) = 3
          /\ {results[i].url : i \in 1..3} = {SeedPage, PageP1, PageP2}
          /\ \A i \in 1..3 : Origin(results[i].url) = Origin(SeedPage)

\* the run returned three Results although /p1 linked to /p3, which was
\* queued at depth 2
C20_Witness ==
  /\ crawlPc = "resolved"
  /\ Len(results) = 3
  /\ results[1].foundUrls = <<PageP1, PageP2>>
  /\ \E i \in 2..3 : results[i].foundUrls = <<PageP3, PageP2>>
  /\ \E k \in 1..Len(pushLog) : pushLog[k].url = PageP3 /\ pushLog[k].depth = 2
  /\ \A u \in Urls : Failed(u) = 0

----------------------------------------------------------------------------
(* C21  One outcome per claimed URL: when crawl() returns, every URL in     *)
(* visitedUrls has either exactly one Result and no error signal, or        *)
(* exactly one error signal and no Result; no URL has both or two Results.  *)

C21_OneOutcome ==
  crawlPc = "resolved" =>
    /\ \A u \in visitedUrls :
         \/ Cardinality(ResultsFor(u)) = 1 /\ EmitCount(u) = 0
         \/ Cardinality(ResultsFor(u)) = 0 /\ EmitCount(u) = 1
    /\ \A u \in Urls \ visitedUrls :
         Cardinality(ResultsFor(u)) = 0 /\ EmitCount(u) = 0

\* the run returned with a Result for one page and an error signal for another
C21_Witness ==
  /\ crawlPc = "resolved"
  /\ \E u, v \in visitedUrls :
       /\ u # v
       /\ Cardinality(ResultsFor(u)) = 1
       /\ EmitCount(v) = 1

----------------------------------------------------------------------------
(* C22  HTTP status is not an error: a request that receives a response     *)
(* with any HTTP status code, 4xx and 5xx included, is not retried, emits   *)
(* no error signal, and produces exactly one Result carrying that status.   *)

C22_StatusIsNotAnError ==
  \A i \in 1..Len(received) :
    LET u == received[i].url
    IN /\ \A j \in 1..Len(received) : received[j].url = u => j = i
       /\ IsSuccess(fetchLog[u][Len(fetchLog[u])])
       /\ EmitCount(u) = 0
       /\ Cardinality(ResultsFor(u)) = 1
       /\ \A k \in ResultsFor(u) : results[k].status = received[i].status

\* a 404 answer and, after a failed first attempt, a 500 answer each gave a
\* Result
C22_Witness ==
  /\ Len(results) = 2
  /\ results[1].status = 404
  /\ results[2].status = 500
  /\ Failed(results[2].url) = 1
  /\ emitted = <<>>

----------------------------------------------------------------------------
(* Observations on a direct call of isSameOrigin                           *)

Returned == call.fn = "isSameOrigin" /\ call.ret # "pending"

\* scheme, host and port of a parsed URL, the port being the scheme's default
\* where none is written
Triple(url) ==
  <<url.scheme, url.host,
    IF url.port = <<>> THEN DefaultPort(url.scheme) ELSE url.port[1]>>

\* the origin argument read as a URL
OriginAsUrl(origin) ==
  ParseUrl(UrlText(origin.scheme, origin.host, origin.port, origin.tail, <<>>))

\* is the origin argument written the way url.origin writes an origin?
IsSerialized(origin) ==
  /\ OriginAsUrl(origin).ok
  /\ origin = OriginText(OriginAsUrl(origin).scheme, OriginAsUrl(origin).host,
                         OriginAsUrl(origin).port, "")

\* the URL whose scheme, host and port make the origin of url: url itself, or
\* for a blob: URL the http(s) URL it wraps; <<>> when the origin is opaque
OriginBearer(url) ==
  IF IsSpecial(url.scheme)
    THEN <<url>>
    ELSE IF url.scheme = "blob" /\ url.wraps # <<>>
                /\ ParseUrl(url.wraps[1]).ok
                /\ ParseUrl(url.wraps[1]).scheme \in {"http", "https"}
      THEN <<ParseUrl(url.wraps[1])>>
      ELSE <<>>

----------------------------------------------------------------------------
(* C23  isSameOrigin.  As stated: isSameOrigin(urlString, origin) returns   *)
(* true exactly when urlString parses as an absolute URL whose scheme, host *)
(* and port all equal those of origin; it returns false for a different     *)
(* host, scheme or port, and false, without throwing, when urlString does   *)
(* not parse.                                                               *)

C23_TrueIffSchemeHostPortEqual ==
  Returned =>
    LET url == ParseUrl(call.urlString)
        o == OriginAsUrl(call.origin)
    IN /\ call.ret \in {"true", "false"}
       /\ call.ret = "true" <=> (url.ok /\ o.ok /\ Triple(url) = Triple(o))

(* C23 as amended: isSameOrigin(urlString, origin) returns true exactly     *)
(* when urlString parses as an absolute URL whose serialized origin is the  *)
(* string origin.  For an origin string in serialized form that is when     *)
(* scheme, host and port of the URL (of the wrapped URL, for a blob: URL    *)
(* that wraps an http(s) URL) equal those of origin; the origin of every    *)
(* other URL without a tuple origin is the string "null"; an origin string  *)
(* not in serialized form (default port written, trailing slash, upper      *)
(* case) gives false for every URL.  It returns false, without throwing,    *)
(* when urlString does not parse.                                           *)

C23_IsSameOrigin ==
  Returned =>
    LET url == ParseUrl(call.urlString)
        o == OriginAsUrl(call.origin)
    IN /\ call.ret \in {"true", "false"}
       /\ ~url.ok => call.ret = "false"
       /\ url.ok /\ OriginBearer(url) # <<>> =>
            (call.ret = "true" <=>
               /\ IsSerialized(call.origin)
               /\ Triple(OriginBearer(url)[1]) = Triple(o))
       /\ url.ok /\ OriginBearer(url) = <<>> =>
            (call.ret = "true" <=> call.origin = NullOrigin)

\* the call of the basic test returned true, with the URL written with its
\* default port
C23_Witness ==
  /\ Returned
  /\ call.urlString = UrlText("https", "a.test", <<443>>, "/page", <<>>)
  /\ call.origin = OriginText("https", "a.test", <<>>, "")
  /\ call.ret = "true"

----------------------------------------------------------------------------
(* C24  The Discovered Set is a superset of the Visited Set: in every       *)
(* reachable state every URL in visitedUrls is in discoveredUrls, hence     *)
(* totalDiscovered >= number of visited URLs >= totalCrawled.               *)

C24_DiscoveredCoversVisited ==
  /\ visitedUrls \subseteq discoveredUrls
  /\ Cardinality(discoveredUrls) >= Cardinality(visitedUrls)
  /\ Cardinality(visitedUrls) >= Len(results)

\* three pages visited, one of them still without a Result, and a foreign link
\* discovered besides
C24_Witness ==
  /\ Cardinality(visitedUrls) = 3
  /\ Len(results) = 2
  /\ Cardinality(discoveredUrls) = 4

----------------------------------------------------------------------------
(* C25  The Discovered Set.  As stated: a URL is in discoveredUrls if and   *)
(* only if it has been pushed to urlQueue during this run; links rejected   *)
(* for a different origin are not in it.                                    *)

C25_DiscoveredIsPushed ==
  \A u \in Urls : u \in discoveredUrls <=> PushesOf(u) # {}

(* C25 as amended: discoveredUrls holds the seed and every http link        *)
(* extracted from a fetched page, whether or not the link was pushed to     *)
(* urlQueue: it is a superset of the URLs pushed during this run, and links *)
(* rejected for a different origin or for being visited are in it too.      *)

C25_DiscoveredIsExtracted ==
  /\ discoveredUrls =
       {pushLog[k].url : k \in {j \in 1..Len(pushLog) : pushLog[j].from = NoUrl}}
         \cup UNION {Range(results[i].foundUrls) : i \in 1..Len(results)}
  /\ \A k \in 1..Len(pushLog) : pushLog[k].url \in discoveredUrls

\* a foreign link was extracted: it is discovered and was never pushed
C25_Witness ==
  /\ Foreign \in discoveredUrls
  /\ PushesOf(Foreign) = {}
  /\ \E i \in 1..Len(results) : Foreign \in Range(results[i].foundUrls)

----------------------------------------------------------------------------
(* C26  Politeness delay: between the end of a worker's processing of one   *)
(* claimed URL (success or terminal failure) and that worker's next         *)
(* dequeue the worker sleeps delayBetweenRequests; no worker issues         *)
(* requests for two different URLs without such a sleep in between.         *)

C26_PolitenessDelay ==
  \A w \in Workers :
    LET log == workerLog[w]
    IN /\ \A i \in 1..Len(log) :
            log[i].ev = "claim" /\ i > 1 =>
              /\ i > 2
              /\ log[i - 1].ev = "sleep"
              /\ log[i - 1].n = config.delayBetweenRequests
              /\ TimerDelay(log[i - 1].n) >= 1
              /\ log[i - 2].ev = "end"
              /\ log[i - 2].url # log[i].url
       /\ \A i \in 1..Len(log) :
            log[i].ev = "end" /\ i < Len(log) => log[i + 1].ev = "sleep"
       /\ Len(log) > 0 /\ log[Len(log)].ev = "end" => pc[w] = "rejected"

\* a worker went on to a third page, after a Result and after a terminal
\* failure
C26_Witness ==
  \E w \in Workers :
    /\ Len(SelectSeq(workerLog[w], LAMBDA e : e.ev = "claim")) = 3
    /\ Len(results) = 1
    /\ Len(emitted) = 1

----------------------------------------------------------------------------
(* C27  Run-owned state: for two sequential crawl() calls on one instance   *)
(* nothing of the first run survives into the second: the second run starts *)
(* with empty Visited Set, Discovered Set, Frontier and Results and with no *)
(* host marked slow, so it behaves as on a fresh instance.                  *)

C27_RunOwnedState ==
  [][crawlPc' = "awaiting" /\ crawlPc \in {"resolved", "rejected"} =>
       /\ results' = <<>>
       /\ visitedUrls' = {pushLog'[1].url}
       /\ discoveredUrls' = {pushLog'[1].url}
       /\ urlQueue' = <<>>
       /\ fetchLog'[pushLog'[1].url] = <<Ev("invoke", 0), Ev("request", 0)>>
       /\ hostDelays' = <<>>
       /\ slowHosts' = {}]_vars

----------------------------------------------------------------------------
(* C28  Result storage accounting: after crawl() returns,                   *)
(* storageStats.totalResults equals the number of Results the run returned. *)

C28_StorageAccounting ==
  crawlPc = "resolved" => storageStats.totalResults = Len(results)

----------------------------------------------------------------------------
(* C29  Non-hypertext content yields no links: a successful response whose  *)
(* content type is not HTML produces a Result with linksFound = 0 and title *)
(* null, adds nothing to discoveredUrls, pushes nothing to urlQueue, and is *)
(* not treated as an error.                                                 *)

\* is the media type of the header value text/html (in any letter case)?
DeclaresHtml(contentType) ==
  contentType \in {"text/html", "text/html; charset=utf-8", "Text/HTML"}

C29_NonHypertextNoLinks ==
  [][Len(received') = Len(received) + 1
       /\ ~DeclaresHtml(received'[Len(received')].contentType) =>
       /\ Len(results') = Len(results) + 1
       /\ LET result == results'[Len(results')]
          IN /\ result.url = received'[Len(received')].url
             /\ result.contentType = received'[Len(received')].contentType
             /\ result.linksFound = 0
             /\ result.foundUrls = <<>>
             /\ result.title = <<>>
       /\ discoveredUrls' = discoveredUrls
       /\ urlQueue' = urlQueue
       /\ pushLog' = pushLog
       /\ emitted' = emitted
       /\ failures' = failures]_vars

\* after an HTML page with two links, a JSON answer with links in its body
\* gave a Result without links and nothing was pushed
C29_Witness ==
  /\ Len(results) = 2
  /\ results[1].linksFound = 2
  /\ Len(pushLog) = 2
  /\ urlQueue = <<>>
  /\ received[2].contentType = "application/json"
  /\ received[2].hrefs # <<>>
  /\ results[2].linksFound = 0
  /\ results[2].title = <<>>

----------------------------------------------------------------------------
(* C30  Breadth-first order: URLs are dequeued from a FIFO queue, so the    *)
(* sequence of Results has non-decreasing depth, and the depth recorded for *)
(* each Result is the minimum number of link hops from the seed to that URL *)
(* over pages that were successfully fetched.                               *)

\* the least number of link hops from the seed to u over the fetched pages
\* (u is within Cardinality(Urls) hops when it is reachable at all)
MinHops(u) ==
  LET ks == {k \in 0..Cardinality(Urls) : u \in Within(k)}
  IN CHOOSE k \in ks : \A j \in ks : k <= j

C30_BreadthFirst ==
  /\ \A i, j \in 1..Len(results) :
       i < j => results[i].depth <= results[j].depth
  /\ \A i \in 1..Len(results) :
       /\ \E k \in 0..Cardinality(Urls) : results[i].url \in Within(k)
       /\ results[i].depth = MinHops(results[i].url)

\* a page was queued at depth 1 and again at depth 2: its Result has depth 1;
\* the Results have depths 0, 1, 1
C30_Witness ==
  /\ Len(results) = 3
  /\ results[3].depth = 1
  /\ \E a, b \in PushesOf(results[3].url) :
       pushLog[a].depth = 1 /\ pushLog[b].depth = 2

----------------------------------------------------------------------------
(* C31  Host state is written only after a successful response over the    *)
(* threshold: a request attempt that fails at network level leaves         *)
(* slowHosts and hostDelays unchanged, and so does a successful response   *)
(* whose response time is below the threshold.                             *)

\* this step handled a failed attempt of u
AttemptFailed(u) ==
  /\ crawlPc = "awaiting"
  /\ Len(SelectSeq(fetchLog'[u], IsFailure)) = Failed(u) + 1

HostStateUnchanged == slowHosts' = slowHosts /\ hostDelays' = hostDelays

C31_HostStateFrame ==
  [][/\ (\A u \in Urls : AttemptFailed(u) => HostStateUnchanged)
     /\ (\A u \in Urls :
           Responded(u) /\ RespondedTime(u) < config.slowHostThreshold
             => HostStateUnchanged)
     /\ (~HostStateUnchanged =>
           \E u \in Urls : /\ Responded(u)
                           /\ RespondedTime(u) > config.slowHostThreshold)]_vars

\* after a marking response, a failed attempt and a response below the
\* threshold the host's delay is still the one the marking response set
C31_Witness ==
  /\ Len(results) = 2
  /\ results[1].responseTime > config.slowHostThreshold
  /\ results[2].responseTime < config.slowHostThreshold
  /\ Failed(results[2].url) > 0
  /\ hostDelays[Hostname(results[1].url)] = results[1].responseTime

----------------------------------------------------------------------------
(* C32  Frontier entries are consumed exactly once: no two workers ever    *)
(* receive the same urlQueue entry from a dequeue, and every entry pushed  *)
(* to urlQueue during a run has been dequeued exactly once by the time     *)
(* crawl() returns.                                                        *)

Entries == [url : Urls, depth : 0..(MaxDepthBound + 1)]

Entry(e) == [url |-> e.url, depth |-> e.depth]

\* how often the entry e occurs in the sequence log
Occurrences(log, e) == Cardinality({i \in 1..Len(log) : Entry(log[i]) = e})

\* the entries pushed so far are, one for one, those handed out by a shift and
\* those still queued; every shift handed its entry to one worker; when
\* crawl() has returned nothing is queued
C32_ConsumedExactlyOnce ==
  /\ \A i \in 1..Len(pushLog) : Entry(pushLog[i]) \in Entries
  /\ \A e \in Entries :
       Occurrences(shiftLog, e) + Occurrences(urlQueue, e) = Occurrences(pushLog, e)
  /\ Len(shiftLog) + Len(urlQueue) = Len(pushLog)
  /\ \A i \in 1..Len(shiftLog) : shiftLog[i].w \in 1..config.maxConcurrency
  /\ crawlPc = "resolved" =>
       /\ urlQueue = <<>>
       /\ \A e \in Entries : Occurrences(shiftLog, e) = Occurrences(pushLog, e)

\* crawl() returned after a run in which one entry was pushed twice and
\* shifted twice, once to be fetched and once to be skipped
C32_Witness ==
  /\ crawlPc = "resolved"
  /\ \E e \in Entries : Occurrences(pushLog, e) = 2 /\ Occurrences(shiftLog, e) = 2
  /\ Len(results) = 3

----------------------------------------------------------------------------
(* C33  Non-reentrancy: when a second crawl() is invoked on an instance     *)
(* while a first crawl() on it is still in progress, the two runs corrupt   *)
(* each other: the first call's visited/queue/results are wiped by the      *)
(* second call, the first call returns Results that belong to the second    *)
(* seed's run, or one run's completion (isRunning = false) stops the other  *)
(* run's workers with entries still in urlQueue.                            *)

\* this step is the second crawl() call, made while the first is pending
SecondCallMade == overlapPc = "none" /\ overlapPc' # "none"

\* the URLs the workers of the second call claimed on their start
ClaimedOnStart ==
  {cur'[w].url : w \in {v \in OverlapWorkers : pc'[v] \notin {"unborn", "done"}}}

\* worker w ran its while test in this step
LoopTested(w) == pc[w] = "politeSleep" /\ pc'[w] # "politeSleep"

\* every second call replaces the state the first call works on: the first
\* call's claims, queue and Results are gone; and a worker that tests
\* isRunning after either call has returned leaves whatever is queued
C33_RunsCorruptEachOther ==
  [][/\ SecondCallMade =>
          /\ visitedUrls # {}
          /\ visitedUrls' = ClaimedOnStart
          /\ \A w \in 1..config.maxConcurrency :
               pc[w] = "request" /\ cur[w].url \notin ClaimedOnStart
                 => cur[w].url \notin visitedUrls'
          /\ results' = <<>>
          /\ urlQueue' = <<>>
     /\ \A w \in Workers :
          LoopTested(w) /\ ~isRunning =>
            /\ pc'[w] = "done"
            /\ urlQueue' = urlQueue]_vars

\* both calls have returned the same array: it holds the second seed's Result
\* at depth 0 next to the first seed's; the first call's return stopped the
\* second call's worker, and an entry is still queued
C33_Witness ==
  /\ crawlPc = "resolved"
  /\ overlapPc = "resolved"
  /\ urlQueue # <<>>
  /\ Len(results) >= 2
  /\ results[1].url = SeedPage /\ results[1].depth = 0
  /\ results[2].url = PageP1 /\ results[2].depth = 0
  /\ \A w \in Workers : pc[w] = "done"

----------------------------------------------------------------------------
(* C34  Host delay is last-write-wins: after any sequence of responses     *)
(* from one host, the delay recorded for that host equals min(t, 10000 ms) *)
(* where t is the response time of the most recent successful response     *)
(* that exceeded the threshold; it may decrease as well as increase, and   *)
(* the measured t never includes the slow-host sleep that preceded the     *)
(* request.                                                                *)

----------------------------------------------------------------------------
(* C35  Per-URL attempts are strictly sequential: for every URL, at most   *)
(* one request attempt is in flight at any time, attempt i+1 is issued     *)
(* only after attempt i has failed and its backoff sleep has elapsed, and  *)
(* no attempt is issued after one attempt of that URL has succeeded.       *)

\* the workers whose request for u is awaiting its response
Requesting(u) == {w \in Workers : pc[w] = "request" /\ cur[w].url = u}

\* the events of u's fetch without the slow-host sleeps
Attempts(u) ==
  LET notSlowSleep(e) == ~IsSlowSleep(e)
  IN SelectSeq(fetchLog[u], notSlowSleep)

C35_AttemptsSequential ==
  \A u \in Urls :
    LET log == Attempts(u)
    IN /\ Cardinality(Requesting(u)) <= 1
       /\ \A k \in 1..Len(log) :
            IsRequest(log[k]) /\ log[k].n > 0 =>
              /\ k > 3
              /\ log[k - 3] = Ev("request", log[k].n - 1)
              /\ log[k - 2] = Ev("failure", log[k].n - 1)
              /\ IsBackoff(log[k - 1])
       /\ \A j, k \in 1..Len(log) :
            j < k /\ IsSuccess(log[j]) => ~IsRequest(log[k])
       /\ \A w \in Workers :
            cur[w].url = u /\ pc[w] = "backoff" =>
              /\ IsBackoff(log[Len(log)])
              /\ Requesting(u) = {}
       /\ \A w \in Requesting(u) :
            log[Len(log)] = Ev("request", cur[w].attempt)

\* a URL's third attempt succeeded after two failed attempts and their
\* backoff sleeps
C35_Witness ==
  \E u \in Urls :
    fetchLog[u] = <<Ev("invoke", 0), Ev("request", 0), Ev("failure", 0),
                    Ev("backoff", 1000), Ev("request", 1), Ev("failure", 1),
                    Ev("backoff", 2000), Ev("request", 2), Ev("success", 100)>>

----------------------------------------------------------------------------
(* C36  Effective concurrency: in every crawl() run, for every             *)
(* maxConcurrency >= 1, all workers except the first find the queue empty  *)
(* when they start and exit before the seed's fetch completes;             *)
(* consequently at most one fetch is in flight in every reachable state of *)
(* the run.                                                                *)

\* the run has started its workers
WorkersStarted == crawlPc \in {"awaiting", "resolved", "rejected"}

\* the seed's fetch has neither produced a Result nor failed for good
SeedFetchPending == Succeeded(SeedOf) = 0 /\ EmitCount(SeedOf) = 0

----------------------------------------------------------------------------
(* C37  No origin drift: in every reachable state of a run, every URL in   *)
(* visitedUrls and every Result has the same origin (scheme+host+port) as  *)
(* the seed URL, because the admission origin is taken from the requested  *)
(* URL of the discovering page and never from the final URL after          *)
(* redirects.                                                              *)

C37_NoOriginDrift ==
  WorkersStarted =>
    /\ \A u \in visitedUrls : Origin(u) = Origin(SeedOf)
    /\ \A i \in 1..Len(results) : Origin(results[i].url) = Origin(SeedOf)
    /\ \A i \in 1..Len(urlQueue) : Origin(urlQueue[i].url) = Origin(SeedOf)
    /\ \A n \in 1..Len(pushLog) :
         pushLog[n].from # NoUrl =>
           /\ Origin(pushLog[n].url) = Origin(pushLog[n].from)
           /\ \E i \in 1..Len(received) : received[i].url = pushLog[n].from

\* the seed's request was redirected to another site, whose page carried a
\* relative link and a link to itself: the relative link was taken as a page
\* of the seed's site and fetched, the other was not admitted
C37_Witness ==
  /\ crawlPc = "resolved"
  /\ Len(results) = 2
  /\ received[1].redirectedTo = <<Foreign>>
  /\ received[1].hrefs = <<Rel("/p1"), Foreign>>
  /\ results[1].foundUrls = <<PageP1, Foreign>>
  /\ results[2].url = PageP1
  /\ visitedUrls = {SeedPage, PageP1}

----------------------------------------------------------------------------
(* C38  Claim accounting: in every reachable state of a run with an        *)
(* 'error' listener registered, visitedUrls is the disjoint union of the   *)
(* URLs that have a Result, the URLs that have an emitted error signal,    *)
(* and the URLs whose fetch is currently in flight; in particular every    *)
(* Result's URL is in visitedUrls and results.length <= visitedUrls.size.  *)

WithResult == {results[i].url : i \in 1..Len(results)}

WithErrorSignal == Range(emitted)

BeingFetched == {cur[w].url : w \in {v \in Workers : pc[v] \in MidFetch}}

C38_ClaimAccounting ==
  hasListener /\ WorkersStarted =>
    /\ visitedUrls = WithResult \cup WithErrorSignal \cup BeingFetched
    /\ WithResult \cap WithErrorSignal = {}
    /\ WithResult \cap BeingFetched = {}
    /\ WithErrorSignal \cap BeingFetched = {}
    /\ Len(results) = Cardinality(WithResult)
    /\ Len(emitted) = Cardinality(WithErrorSignal)
    /\ Len(results) <= Cardinality(visitedUrls)

\* three claimed URLs: one has a Result, one an error signal, one is being
\* fetched
C38_Witness ==
  /\ hasListener
  /\ crawlPc = "awaiting"
  /\ Cardinality(visitedUrls) = 3
  /\ Len(results) = 1
  /\ Len(emitted) = 1
  /\ Cardinality(BeingFetched) = 1

----------------------------------------------------------------------------
(* C39  Depth chain: in every reachable state, every Result with depth     *)
(* d > 0 has a discovering page, i.e. there is a Result with depth d-1     *)
(* whose extracted links contained that URL; the only Result with depth 0  *)
(* is the seed's.                                                          *)

C39_DepthChain ==
  \A i \in 1..Len(results) :
    /\ results[i].depth > 0 =>
         \E j \in 1..Len(results) :
           /\ j < i
           /\ results[j].depth = results[i].depth - 1
           /\ results[i].url \in Range(results[j].foundUrls)
    /\ results[i].depth = 0 => i = 1 /\ results[i].url = SeedOf
    /\ results[i].url = SeedOf => results[i].depth = 0

\* a chain of three Results: the seed's at depth 0, a page it links to at
\* depth 1, and at depth 2 a page only the second links to
C39_Witness ==
  /\ Len(results) = 3
  /\ results[1].depth = 0
  /\ results[2].depth = 1
  /\ results[3].depth = 2
  /\ results[3].url \notin Range(results[1].foundUrls)
  /\ results[3].url \in Range(results[2].foundUrls)

====
